---- MODULE Spec2Model ----
(***************************************************************************)
(* A model of the last.fm client: the LastFMApi session lifecycle and     *)
(* request pipeline (src/api/client.py), the API error channel            *)
(* (src/api/exceptions.py) and the response schema layer                  *)
(* (src/api/models/album.py, src/api/models/artist.py).                   *)
(***************************************************************************)
EXTENDS Integers, Sequences, FiniteSets, TLC

VARIABLES
  api_key,                \* LastFMApi.api_key
  session,                \* LastFMApi._session: a reference into objs, or None
  using_custom_session,   \* LastFMApi._using_custom_session
  objs,                   \* the session objects constructed so far
  cache,                  \* the cache backend's store: outgoing request -> body
  cache_disabled,         \* the cache backend's `disabled` flag
  calls,                  \* the caller's request tasks, each at its await point
  last,                   \* history: the last lifecycle call, and whether a
                          \* session was set when it began
  wire,                   \* data path: the value under normalisation
  typed                   \* data path: the result of normalising `wire`

vars == <<api_key, session, using_custom_session, objs, cache, cache_disabled,
          calls, last, wire, typed>>

clientVars == <<api_key, session, using_custom_session, objs, cache, cache_disabled>>

(***************************************************************************)
(* Bounds of the model.                                                    *)
(***************************************************************************)
MaxCalls == 2       \* request tasks the caller keeps in flight at once
MaxSessions == 2    \* session objects that may ever be constructed

(***************************************************************************)
(* Values.                                                                 *)
(***************************************************************************)
None == 0                      \* Python None, as a session reference
NoneVal == [t |-> "none"]      \* Python None / JSON null, as a value
StrV(s) == [t |-> "str", v |-> s]
IntV(n) == [t |-> "int", v |-> n]

ApiKey == StrV("KEY")

\* dict merge {**a, **b}: the keys of b win
DictMerge(a, b) ==
  [k \in DOMAIN a \cup DOMAIN b |-> IF k \in DOMAIN b THEN b[k] ELSE a[k]]

\* {k: v for k, v in params.items() if v is not None}
DropNone(params) ==
  [k \in {x \in DOMAIN params : params[x] # NoneVal} |-> params[k]]

\* a plausible slip: the caller's entries are merged last and win
merge_params_caller_wins(params, key) ==
  DictMerge([api_key |-> key, format |-> StrV("json")], DropNone(params))

\* the outgoing parameter set built by _request
merge_params(params, key) ==
  DictMerge(DropNone(params), [api_key |-> key, format |-> StrV("json")])

(***************************************************************************)
(* The error channel.                                                      *)
(***************************************************************************)
\* the numeric strings of the model and their base-10 values
NumericStr == {"0", "1", "6", "29"}
IntOfStr(s) ==
  CASE s = "0" -> 0 [] s = "1" -> 1 [] s = "6" -> 6 [] s = "29" -> 29

\* pydantic's lax `int` field: an int, or a string holding one
IsIntLike(x) == x.t = "int" \/ (x.t = "str" /\ x.v \in NumericStr)
ToInt(x) == IF x.t = "int" THEN x.v ELSE IntOfStr(x.v)

\* LastFMErrorResponse.model_validate(data): both fields required
ErrorShapeValid(data) ==
  /\ "error" \in DOMAIN data /\ IsIntLike(data["error"])
  /\ "message" \in DOMAIN data /\ data["message"].t = "str"

\* a plausible slip: a payload that also carries a result is returned
discriminate_result_first(data) ==
  IF "error" \in DOMAIN data /\ DOMAIN data \subseteq {"error", "message"}
  THEN IF ErrorShapeValid(data)
       THEN [kind |-> "LastFMException", error |-> ToInt(data["error"]),
             message |-> data["message"].v]
       ELSE [kind |-> "ValidationError", model |-> "LastFMErrorResponse"]
  ELSE [kind |-> "returned", data |-> data]

\* the tail of _request: what the call does with the decoded object
discriminate(data) ==
  IF "error" \in DOMAIN data
  THEN IF ErrorShapeValid(data)
       THEN [kind |-> "LastFMException", error |-> ToInt(data["error"]),
             message |-> data["message"].v]
       ELSE [kind |-> "ValidationError", model |-> "LastFMErrorResponse"]
  ELSE [kind |-> "returned", data |-> data]

(***************************************************************************)
(* The response schema layer: pydantic models as field tables, and         *)
(* model_validate as one recursive validator over them.                    *)
(***************************************************************************)
BoolV(b) == [t |-> "bool", v |-> b]
ListV(items) == [t |-> "list", items |-> items]
ObjV(fields) == [t |-> "obj", f |-> fields]

\* the annotations of the models
TStr == [k |-> "str"]
TInt == [k |-> "int"]
TBool == [k |-> "bool"]
TLit(vals) == [k |-> "lit", vals |-> vals]
TOpt(T) == [k |-> "opt", of |-> T]
TList(T) == [k |-> "list", of |-> T]
TModel(name) == [k |-> "model", name |-> name]

\* a field: attribute name, wire key (its alias), annotation, whether it
\* has no default, and its mode="before" validator
Field(name, key, type, required, before) ==
  [name |-> name, key |-> key, type |-> type, required |-> required,
   before |-> before]

ImageSizes == {"small", "medium", "large", "extralarge", "mega"}

AlbumTracksFields ==
  { Field("track", "track", TList(TModel("AlbumTrack")), TRUE, "normalize_track") }

AlbumFields(name) ==
  CASE name = "AlbumImage" ->
         { Field("url", "#text", TStr, TRUE, "none"),
           Field("size", "size", TOpt(TLit(ImageSizes)), TRUE, "empty_to_none") }
    [] name = "Album" ->
         { Field("name", "name", TStr, TRUE, "none"),
           Field("artist", "artist", TStr, TRUE, "none"),
           Field("url", "url", TStr, TRUE, "none"),
           Field("image", "image", TList(TModel("AlbumImage")), TRUE, "none"),
           Field("streamable", "streamable", TBool, TRUE, "parse_bool"),
           Field("mbid", "mbid", TOpt(TStr), TRUE, "empty_to_none") }
    [] name = "AlbumTag" ->
         { Field("url", "url", TStr, TRUE, "none"),
           Field("name", "name", TStr, TRUE, "none") }
    [] name = "AlbumTags" ->
         { Field("tag", "tag", TList(TModel("AlbumTag")), TRUE, "none") }
    [] name = "AlbumTrackStreamable" ->
         { Field("fulltrack", "fulltrack", TBool, TRUE, "parse_bool"),
           Field("text", "#text", TStr, TRUE, "none") }
    [] name = "AlbumTrackIndex" ->
         { Field("index", "rank", TInt, TRUE, "none") }
    [] name = "AlbumTrackArtist" ->
         { Field("name", "name", TStr, TRUE, "none"),
           Field("url", "url", TStr, TRUE, "none"),
           Field("mbid", "mbid", TOpt(TStr), TRUE, "empty_to_none") }
    [] name = "AlbumTrackWiki" ->
         { Field("published", "published", TStr, TRUE, "none"),
           Field("summary", "summary", TOpt(TStr), TRUE, "none"),
           Field("content", "content", TOpt(TStr), TRUE, "none") }
    [] name = "AlbumTrack" ->
         { Field("streamable", "streamable", TModel("AlbumTrackStreamable"), TRUE, "none"),
           Field("duration", "duration", TOpt(TInt), TRUE, "none"),
           Field("url", "url", TStr, TRUE, "none"),
           Field("name", "name", TStr, TRUE, "none"),
           Field("index", "@attr", TModel("AlbumTrackIndex"), TRUE, "none"),
           Field("artist", "artist", TModel("AlbumTrackArtist"), TRUE, "none") }
    [] name = "AlbumTracks" -> AlbumTracksFields
    [] name = "AlbumDetail" ->
         { Field("artist", "artist", TStr, TRUE, "none"),
           Field("mbid", "mbid", TOpt(TStr), TRUE, "none"),
           Field("listeners", "listeners", TInt, TRUE, "parse_int"),
           Field("playcount", "playcount", TInt, TRUE, "parse_int"),
           Field("userplaycount", "userplaycount", TOpt(TInt), FALSE, "none"),
           Field("tags", "tags", TOpt(TModel("AlbumTags")), TRUE, "none"),
           Field("image", "image", TList(TModel("AlbumImage")), TRUE, "none"),
           Field("tracks", "tracks", TModel("AlbumTracks"), TRUE, "none"),
           Field("wiki", "wiki", TOpt(TModel("AlbumTrackWiki")), FALSE, "none") }
    [] name = "AlbumDetailResponse" ->
         { Field("album", "album", TModel("AlbumDetail"), TRUE, "none") }

ArtistFields(name) ==
  CASE name = "ArtistImage" ->
         { Field("url", "#text", TStr, TRUE, "none"),
           Field("size", "size", TOpt(TLit(ImageSizes)), TRUE, "empty_to_none") }
    [] name = "Artist" ->
         { Field("name", "name", TStr, TRUE, "none"),
           Field("listeners", "listeners", TInt, TRUE, "parse_int"),
           Field("mbid", "mbid", TOpt(TStr), TRUE, "empty_to_none"),
           Field("url", "url", TStr, TRUE, "none"),
           Field("streamable", "streamable", TBool, TRUE, "parse_bool"),
           Field("image", "image", TList(TModel("ArtistImage")), TRUE, "none") }
    [] name = "ArtistStats" ->
         { Field("listeners", "listeners", TInt, TRUE, "parse_int"),
           Field("playcount", "playcount", TInt, TRUE, "parse_int") }
    [] name = "SimilarArtist" ->
         { Field("name", "name", TStr, TRUE, "none"),
           Field("url", "url", TStr, TRUE, "none"),
           Field("image", "image", TList(TModel("ArtistImage")), TRUE, "none") }
    [] name = "SimilarArtists" ->
         { Field("artist", "artist", TList(TModel("SimilarArtist")), TRUE, "none") }
    [] name = "ArtistTag" ->
         { Field("name", "name", TStr, TRUE, "none"),
           Field("url", "url", TStr, TRUE, "none") }
    [] name = "ArtistTags" ->
         { Field("tag", "tag", TList(TModel("ArtistTag")), TRUE, "none") }
    [] name = "ArtistBioLink" ->
         { Field("text", "#text", TStr, TRUE, "none"),
           Field("rel", "rel", TStr, TRUE, "none"),
           Field("link", "href", TStr, TRUE, "none") }
    [] name = "ArtistBioLinks" ->
         { Field("link", "link", TModel("ArtistBioLink"), TRUE, "none") }
    [] name = "ArtistBio" ->
         { Field("links", "links", TModel("ArtistBioLinks"), TRUE, "none"),
           Field("published", "published", TStr, TRUE, "none"),
           Field("summary", "summary", TStr, TRUE, "none"),
           Field("content", "content", TStr, TRUE, "none") }
    [] name = "ArtistDetail" ->
         { Field("name", "name", TStr, TRUE, "none"),
           Field("mbid", "mbid", TOpt(TStr), TRUE, "empty_to_none"),
           Field("url", "url", TStr, TRUE, "none"),
           Field("image", "image", TList(TModel("ArtistImage")), TRUE, "none"),
           Field("streamable", "streamable", TBool, TRUE, "parse_bool"),
           Field("ontour", "ontour", TBool, TRUE, "none"),
           Field("stats", "stats", TModel("ArtistStats"), TRUE, "none"),
           Field("similar", "similar", TModel("SimilarArtists"), TRUE, "none"),
           Field("tags", "tags", TModel("ArtistTags"), TRUE, "none"),
           Field("bio", "bio", TModel("ArtistBio"), TRUE, "none") }
    [] name = "ArtistDetailResponse" ->
         { Field("artist", "artist", TModel("ArtistDetail"), TRUE, "none") }

AlbumModels ==
  {"AlbumImage", "Album", "AlbumTag", "AlbumTags", "AlbumTrackStreamable",
   "AlbumTrackIndex", "AlbumTrackArtist", "AlbumTrackWiki", "AlbumTrack",
   "AlbumTracks", "AlbumDetail", "AlbumDetailResponse"}

Fields(name) ==
  IF name \in AlbumModels THEN AlbumFields(name) ELSE ArtistFields(name)

\* the models whose Config sets populate_by_name
PopulateByName == {"AlbumImage", "ArtistImage"}

\* Python truthiness of a decoded value
Falsy(w) ==
  \/ w.t = "none"
  \/ (w.t = "str" /\ w.v = "")
  \/ (w.t = "int" /\ w.v = 0)
  \/ (w.t = "bool" /\ ~w.v)
  \/ (w.t = "list" /\ w.items = <<>>)
  \/ (w.t = "obj" /\ DOMAIN w.f = {})

Raise(exc) == [t |-> "raise", exc |-> exc]

\* int(v)
PyInt(w) ==
  CASE w.t = "int" -> w
    [] w.t = "bool" -> IntV(IF w.v THEN 1 ELSE 0)
    [] w.t = "str" -> IF w.v \in NumericStr THEN IntV(IntOfStr(w.v))
                      ELSE Raise("ValueError")
    [] OTHER -> Raise("TypeError")

\* `return v or None`
empty_to_none(w) == IF Falsy(w) THEN NoneVal ELSE w

\* `return int(v)`
parse_int(w) == PyInt(w)

\* `return bool(int(v))`
parse_bool(w) ==
  LET n == PyInt(w) IN IF n.t = "raise" THEN n ELSE BoolV(n.v # 0)

\* `return v if isinstance(v, list) else [v]`
normalize_track(w) == IF w.t = "list" THEN w ELSE ListV(<<w>>)

\* the field_validator(mode="before") of a field, applied to the raw value
Before(name, w) ==
  CASE name = "none" -> w
    [] name = "empty_to_none" -> empty_to_none(w)
    [] name = "parse_int" -> parse_int(w)
    [] name = "parse_bool" -> parse_bool(w)
    [] name = "normalize_track" -> normalize_track(w)

Ok(v) == [ok |-> TRUE, v |-> v, err |-> {}]
Err(e) == [ok |-> FALSE, v |-> NoneVal, err |-> e]

\* the key under which a field is found in a wire object, <<>> when missing
WireKey(model, fd, w) ==
  IF fd.key \in DOMAIN w.f THEN <<fd.key>>
  ELSE IF model \in PopulateByName /\ fd.name \in DOMAIN w.f THEN <<fd.name>>
  ELSE <<>>

\* pydantic's lax `bool`: a bool, 0/1, or "0"/"1"
IsBoolLike(w) ==
  \/ w.t = "bool"
  \/ (w.t = "int" /\ w.v \in {0, 1})
  \/ (w.t = "str" /\ w.v \in {"0", "1"})
ToBool(w) ==
  CASE w.t = "bool" -> w.v
    [] w.t = "int" -> w.v = 1
    [] w.t = "str" -> w.v = "1"

RECURSIVE Validate(_, _)
\* BaseModel.model_validate, by annotation: Ok(typed value), or Err(the
\* set of <<location, error type>> found)
Validate(T, w) ==
  CASE T.k = "str" -> IF w.t = "str" THEN Ok(w) ELSE Err({<<"", "string_type">>})
    [] T.k = "int" -> IF IsIntLike(w) THEN Ok(IntV(ToInt(w)))
                      ELSE Err({<<"", "int_type">>})
    [] T.k = "bool" -> IF IsBoolLike(w) THEN Ok(BoolV(ToBool(w)))
                       ELSE Err({<<"", "bool_type">>})
    [] T.k = "lit" -> IF w.t = "str" /\ w.v \in T.vals THEN Ok(w)
                      ELSE Err({<<"", "literal_error">>})
    [] T.k = "opt" -> IF w.t = "none" THEN Ok(NoneVal) ELSE Validate(T.of, w)
    [] T.k = "list" ->
         IF w.t # "list" THEN Err({<<"", "list_type">>})
         ELSE LET rs == [i \in DOMAIN w.items |-> Validate(T.of, w.items[i])]
              IN IF \A i \in DOMAIN rs : rs[i].ok
                 THEN Ok(ListV([i \in DOMAIN rs |-> rs[i].v]))
                 ELSE Err(UNION {rs[i].err : i \in DOMAIN rs})
    [] T.k = "model" ->
         IF w.t # "obj" THEN Err({<<"", "model_type">>})
         ELSE LET fds == Fields(T.name)
                  one(fd) ==
                    LET key == WireKey(T.name, fd, w)
                    IN IF key = <<>>
                       THEN IF fd.required THEN Err({<<fd.name, "missing">>})
                            ELSE Ok(NoneVal)
                       ELSE LET pre == Before(fd.before, w.f[key[1]])
                            IN IF pre.t = "raise"
                               THEN Err({<<fd.name, pre.exc>>})
                               ELSE LET r == Validate(fd.type, pre)
                                    IN IF r.ok THEN r
                                       ELSE Err({<<fd.name, e[2]>> : e \in r.err})
                  names == {fd.name : fd \in fds}
                  byName(n) == CHOOSE fd \in fds : fd.name = n
              IN IF \A fd \in fds : one(fd).ok
                 THEN Ok(ObjV([n \in names |-> one(byName(n)).v]))
                 ELSE Err(UNION {one(fd).err : fd \in fds})


(***************************************************************************)
(* The client: construction.                                               *)
(***************************************************************************)
\* a session object: CachedSession (cached) or a plain aiohttp.ClientSession
NewSession(isCached, who) ==
  [cached |-> isCached, closed |-> FALSE, owner |-> who]

\* the parameter maps the caller passes to _request
CallerParams ==
  { [method |-> StrV("artist.getinfo"), artist |-> StrV("Cher")],
    [method |-> StrV("artist.getinfo"), artist |-> StrV("Cher"),
     mbid |-> NoneVal, api_key |-> StrV("OTHER")] }

\* the decoded bodies the remote API answers with
Bodies ==
  { [artist |-> StrV("Cher")],
    [error |-> IntV(6), message |-> StrV("Artist not found")] }

IdleCall ==
  [pc |-> "idle", use_cache |-> TRUE, params |-> <<>>, bypass |-> FALSE,
   entry |-> <<>>, saw_disabled |-> FALSE, via |-> "none",
   data |-> <<>>, outcome |-> [kind |-> "none"]]

Calls == 1..MaxCalls

\* __init__ with session=None, a CachedSession or a plain ClientSession
InitClient ==
  /\ api_key = ApiKey
  /\ \E injected \in {"none", "cached", "plain"} :
       IF injected = "none"
       THEN /\ session = None
            /\ using_custom_session = FALSE
            /\ objs = <<>>
       ELSE /\ session = 1
            /\ using_custom_session = TRUE
            /\ objs = <<NewSession(injected = "cached", "caller")>>
  /\ cache = <<>>
  /\ cache_disabled = FALSE
  /\ calls = [c \in Calls |-> IdleCall]
  /\ last = [op |-> "init", had_session |-> session # None]

Init ==
  /\ InitClient
  /\ wire = NoneVal
  /\ typed = NoneVal

(***************************************************************************)
(* The client: lifecycle.                                                  *)
(***************************************************************************)
\* `x or y` takes y when x is falsy; a session object is truthy, None is not
Truthy(s) == s # None

\* a plausible slip: start() builds a session whenever it is called
start_always_creates ==
  /\ Len(objs) < MaxSessions
  /\ objs' = Append(objs, NewSession(TRUE, "client"))
  /\ session' = Len(objs) + 1
  /\ last' = [op |-> "start", had_session |-> session # None]
  /\ UNCHANGED <<api_key, using_custom_session, cache, cache_disabled, calls,
                 wire, typed>>

\* LastFMApi.start (also __aenter__)
start ==
  /\ IF Truthy(session)
     THEN UNCHANGED <<session, objs>>
     ELSE /\ Len(objs) < MaxSessions
          /\ objs' = Append(objs, NewSession(TRUE, "client"))
          /\ session' = Len(objs) + 1
  /\ last' = [op |-> "start", had_session |-> session # None]
  /\ UNCHANGED <<api_key, using_custom_session, cache, cache_disabled, calls,
                 wire, typed>>

\* a plausible slip: close() forgets the ownership flag
close_any_session ==
  /\ IF session # None
     THEN objs' = [objs EXCEPT ![session].closed = TRUE]
     ELSE UNCHANGED objs
  /\ last' = [op |-> "close", had_session |-> session # None]
  /\ UNCHANGED <<api_key, session, using_custom_session, cache, cache_disabled,
                 calls, wire, typed>>

\* a plausible slip: close() drops the reference to the session it closed
close_resets_session ==
  /\ IF session # None /\ ~using_custom_session
     THEN /\ objs' = [objs EXCEPT ![session].closed = TRUE]
          /\ session' = None
     ELSE UNCHANGED <<objs, session>>
  /\ last' = [op |-> "close", had_session |-> session # None]
  /\ UNCHANGED <<api_key, using_custom_session, cache, cache_disabled,
                 calls, wire, typed>>

\* LastFMApi.close (also __aexit__)
close ==
  /\ IF session # None /\ ~using_custom_session
     THEN objs' = [objs EXCEPT ![session].closed = TRUE]
     ELSE UNCHANGED objs
  /\ last' = [op |-> "close", had_session |-> session # None]
  /\ UNCHANGED <<api_key, session, using_custom_session, cache, cache_disabled,
                 calls, wire, typed>>

(***************************************************************************)
(* The client: _request, one action per stretch between two awaits.        *)
(***************************************************************************)
\* isinstance(self._session, CachedSession)
IsCachedSession(s) == objs[s].cached

\* a plausible slip: the session check is missing and the call is dispatched
RequestBegin_unchecked(c, params, use_cache) ==
  /\ calls[c].pc = "idle"
  /\ calls' = [calls EXCEPT ![c] =
       [IdleCall EXCEPT !.pc = "read", !.use_cache = use_cache,
                        !.params = merge_params(params, api_key)]]
  /\ UNCHANGED <<clientVars, last, wire, typed>>

\* _request up to its first await: the session check, the parameter set,
\* entering `self._session.disabled()` on a bypassing call, and the start
\* of session.get
RequestBegin(c, params, use_cache) ==
  /\ calls[c].pc = "idle"
  /\ IF session = None
     THEN /\ calls' = [calls EXCEPT ![c] =
               [IdleCall EXCEPT !.pc = "done",
                                !.outcome = [kind |-> "RuntimeError"]]]
          /\ UNCHANGED cache_disabled
     ELSE LET bypass == ~use_cache /\ IsCachedSession(session) IN
          /\ calls' = [calls EXCEPT ![c] =
               [IdleCall EXCEPT
                  !.pc = IF IsCachedSession(session) THEN "read" ELSE "net",
                  !.use_cache = use_cache,
                  !.params = merge_params(params, api_key),
                  !.bypass = bypass]]
          /\ cache_disabled' = IF bypass THEN TRUE ELSE cache_disabled
  /\ UNCHANGED <<api_key, session, using_custom_session, objs, cache, last,
                 wire, typed>>

\* session.get of a CachedSession: the store answers the read of the
\* request's entry
RequestRead(c) ==
  /\ calls[c].pc = "read"
  /\ session # None
  /\ ~objs[session].closed
  /\ calls' = [calls EXCEPT ![c] =
       [@ EXCEPT !.pc = "lookup",
                 !.entry = IF calls[c].params \in DOMAIN cache
                           THEN <<cache[calls[c].params]>> ELSE <<>>]]
  /\ UNCHANGED <<clientVars, last, wire, typed>>

\* session.get of a CachedSession: back from the store, the entry read is
\* served unless the backend's `disabled` flag is set at that moment
RequestLookup(c) ==
  /\ calls[c].pc = "lookup"
  /\ session # None
  /\ ~objs[session].closed
  /\ LET hit == calls[c].entry # <<>> /\ ~cache_disabled
     IN calls' = [calls EXCEPT ![c] =
          [@ EXCEPT !.pc = IF hit THEN "body" ELSE "net",
                    !.entry = <<>>,
                    !.saw_disabled = cache_disabled,
                    !.via = IF hit THEN "cache" ELSE "none",
                    !.data = IF hit THEN calls[c].entry[1] ELSE <<>>]]
  /\ UNCHANGED <<clientVars, last, wire, typed>>

\* the network round trip: the remote API answers, and a CachedSession
\* stores the answer unless the backend is disabled at that moment
RequestNetwork(c, body) ==
  /\ calls[c].pc = "net"
  /\ session # None
  /\ ~objs[session].closed
  /\ calls' = [calls EXCEPT ![c] =
       [@ EXCEPT !.pc = "body", !.via = "network", !.data = body]]
  /\ cache' = IF IsCachedSession(session) /\ ~cache_disabled
              THEN (calls[c].params :> body) @@ cache
              ELSE cache
  /\ UNCHANGED <<api_key, session, using_custom_session, objs, cache_disabled,
                 last, wire, typed>>

\* resp.json() is decoded, the `disabled()` block is left, and the decoded
\* object is raised as an API error or returned
RequestFinish(c) ==
  /\ calls[c].pc = "body"
  /\ calls' = [calls EXCEPT ![c] =
       [IdleCall EXCEPT !.pc = "done",
                        !.outcome = discriminate(calls[c].data)]]
  /\ cache_disabled' = IF calls[c].bypass THEN FALSE ELSE cache_disabled
  /\ UNCHANGED <<api_key, session, using_custom_session, objs, cache, last, wire, typed>>

\* the call ends at an await by a transport error or by cancellation; the
\* `disabled()` block is then left by an exception, and whether the flag is
\* reset on that path is up to the installed aiohttp_client_cache
RequestFail(c, kind, reset) ==
  /\ calls[c].pc \in {"read", "lookup", "net", "body"}
  /\ calls' = [calls EXCEPT ![c] =
       [IdleCall EXCEPT !.pc = "done", !.outcome = [kind |-> kind]]]
  /\ cache_disabled' = IF calls[c].bypass /\ reset THEN FALSE ELSE cache_disabled
  /\ UNCHANGED <<api_key, session, using_custom_session, objs, cache, last, wire, typed>>

\* the caller takes the result; the task slot is free for the next call
RequestReturn(c) ==
  /\ calls[c].pc = "done"
  /\ calls' = [calls EXCEPT ![c] = IdleCall]
  /\ UNCHANGED <<clientVars, last, wire, typed>>

Next ==
  \/ start
  \/ close
  \/ \E c \in Calls, p \in CallerParams, uc \in BOOLEAN : RequestBegin(c, p, uc)
  \/ \E c \in Calls : RequestRead(c)
  \/ \E c \in Calls : RequestLookup(c)
  \/ \E c \in Calls, b \in Bodies : RequestNetwork(c, b)
  \/ \E c \in Calls : RequestFinish(c)
  \/ \E c \in Calls, k \in {"TransportError", "Cancelled"}, r \in BOOLEAN :
       RequestFail(c, k, r)
  \/ \E c \in Calls : RequestReturn(c)

Spec == Init /\ [][Next]_vars

(***************************************************************************)
(* The data path on its own: parameter assembly, error discrimination and  *)
(* schema validation applied to inputs drawn from bounded sets.            *)
(***************************************************************************)
MaxItems == 2       \* the longest wire list given to a list-like field

Pending == [t |-> "pending"]

\* caller parameter maps: each key missing, None, or set by the caller
ParamKeys == {"artist", "mbid", "api_key", "format"}
ParamInputs ==
  UNION {[ks -> {NoneVal, StrV("Cher")}] : ks \in SUBSET ParamKeys}

\* decoded response objects with and without an `error` key
DataInputs ==
  LET opt(k, vals) == {<<>>} \cup {(k :> v) : v \in vals}
  IN { DictMerge(DictMerge(e, m), o) :
         e \in opt("error", {IntV(6), IntV(29), StrV("6"), StrV("six"), NoneVal}),
         m \in opt("message", {StrV("Artist not found"), IntV(1)}),
         o \in opt("artist", {StrV("Cher")}) }

\* wire objects as the remote API sends them
With(o, k, v) == ObjV(DictMerge(o.f, (k :> v)))
Without(o, ks) == ObjV([k \in DOMAIN o.f \ ks |-> o.f[k]])

WImage == ObjV(("#text" :> StrV("http://i")) @@ [size |-> StrV("")])
WTag(n) == ObjV([name |-> StrV(n), url |-> StrV("http://t")])
WTrackArtist ==
  ObjV([name |-> StrV("Cher"), url |-> StrV("http://a"), mbid |-> StrV("")])
WTrack(n) ==
  ObjV(("@attr" :> ObjV([rank |-> IntV(1)])) @@
       [streamable |-> ObjV(("#text" :> StrV("0")) @@ [fulltrack |-> StrV("0")]),
        duration |-> IntV(29), url |-> StrV("http://k"), name |-> StrV(n),
        artist |-> WTrackArtist])
WSimilar(n) ==
  ObjV([name |-> StrV(n), url |-> StrV("http://s"), image |-> ListV(<<WImage>>)])
WArtist ==
  ObjV([name |-> StrV("Cher"), listeners |-> StrV("29"), mbid |-> StrV("bf0f"),
        url |-> StrV("http://a"), streamable |-> StrV("0"),
        image |-> ListV(<<WImage>>)])
WAlbum ==
  ObjV([name |-> StrV("Believe"), artist |-> StrV("Cher"),
        url |-> StrV("http://b"), image |-> ListV(<<WImage>>),
        streamable |-> StrV("0"), mbid |-> StrV("63b3")])
WAlbumDetail ==
  ObjV([artist |-> StrV("Cher"), mbid |-> StrV("63b3"),
        listeners |-> StrV("29"), playcount |-> StrV("29"),
        userplaycount |-> IntV(6),
        tags |-> ObjV([tag |-> ListV(<<WTag("pop")>>)]),
        image |-> ListV(<<WImage>>),
        tracks |-> ObjV([track |-> ListV(<<WTrack("Believe")>>)]),
        wiki |-> ObjV([published |-> StrV("2008"), summary |-> StrV("s"),
                       content |-> StrV("c")])])
WArtistDetail ==
  ObjV([name |-> StrV("Cher"), mbid |-> StrV("bf0f"), url |-> StrV("http://a"),
        image |-> ListV(<<WImage>>), streamable |-> StrV("0"),
        ontour |-> StrV("0"),
        stats |-> ObjV([listeners |-> StrV("29"), playcount |-> StrV("29")]),
        similar |-> ObjV([artist |-> ListV(<<WSimilar("Madonna")>>)]),
        tags |-> ObjV([tag |-> ListV(<<WTag("pop")>>)]),
        bio |-> ObjV([links |-> ObjV([link |-> ObjV(("#text" :> StrV("")) @@
                                      [rel |-> StrV("original"),
                                       href |-> StrV("http://w")])]),
                      published |-> StrV("2006"), summary |-> StrV("s"),
                      content |-> StrV("c")])])

\* the record types that carry a MusicBrainz ID, each with a valid wire object
MbidModels == {"Artist", "ArtistDetail", "Album", "AlbumDetail", "AlbumTrackArtist"}
WBase(model) ==
  CASE model = "Artist" -> WArtist
    [] model = "ArtistDetail" -> WArtistDetail
    [] model = "Album" -> WAlbum
    [] model = "AlbumDetail" -> WAlbumDetail
    [] model = "AlbumTrackArtist" -> WTrackArtist

\* the optional sections of the two detail responses
Sections(model) ==
  IF model = "AlbumDetail" THEN {"tags", "wiki", "userplaycount"}
  ELSE {"tags", "bio", "userplaycount"}

\* the list-like nested fields: container model, field, element model, elements
ListFields ==
  { [model |-> "AlbumTracks", field |-> "track", elem |-> "AlbumTrack",
     elems |-> {WTrack("Believe"), WTrack("Strong Enough")}],
    [model |-> "AlbumTags", field |-> "tag", elem |-> "AlbumTag",
     elems |-> {WTag("pop"), WTag("dance")}],
    [model |-> "ArtistTags", field |-> "tag", elem |-> "ArtistTag",
     elems |-> {WTag("pop"), WTag("dance")}],
    [model |-> "SimilarArtists", field |-> "artist", elem |-> "SimilarArtist",
     elems |-> {WSimilar("Madonna"), WSimilar("Kylie")}] }

SeqsUpTo(S, n) == UNION {[1..k -> S] : k \in 0..n}

Input(fn, case, model, arg) ==
  [fn |-> fn, case |-> case, model |-> model, arg |-> arg]

ValidateInputs ==
  {Input("validate", "mbid", m, With(WBase(m), "mbid", v)) :
     m \in MbidModels, v \in {NoneVal, StrV(""), StrV("b10b")}}
  \cup
  {Input("validate", "sections", m, Without(WBase(m), s)) :
     m \in {"AlbumDetail", "ArtistDetail"},
     s \in SUBSET {"tags", "wiki", "bio", "userplaycount"}}
  \cup
  UNION {
    {Input("validate", "list", lf.model, ObjV((lf.field :> e))) : e \in lf.elems}
    \cup
    {Input("validate", "list", lf.model, ObjV((lf.field :> ListV(q)))) :
       q \in SeqsUpTo(lf.elems, MaxItems)}
    : lf \in ListFields}

InitData ==
  /\ api_key = ApiKey
  /\ session = None
  /\ using_custom_session = FALSE
  /\ objs = <<>>
  /\ cache = <<>>
  /\ cache_disabled = FALSE
  /\ calls = [c \in Calls |-> IdleCall]
  /\ last = [op |-> "init", had_session |-> FALSE]
  /\ wire \in {Input("params", "", "", p) : p \in ParamInputs}
             \cup {Input("data", "", "", d) : d \in DataInputs}
             \cup ValidateInputs
  /\ typed = Pending

\* _request builds the outgoing parameter set
AssembleParams ==
  /\ wire.fn = "params" /\ typed = Pending
  /\ typed' = merge_params(wire.arg, api_key)
  /\ UNCHANGED <<clientVars, calls, last, wire>>

\* _request raises or returns the decoded object
Discriminate ==
  /\ wire.fn = "data" /\ typed = Pending
  /\ typed' = discriminate(wire.arg)
  /\ UNCHANGED <<clientVars, calls, last, wire>>

\* <Model>.model_validate(data)
ModelValidate ==
  /\ wire.fn = "validate" /\ typed = Pending
  /\ typed' = Validate(TModel(wire.model), wire.arg)
  /\ UNCHANGED <<clientVars, calls, last, wire>>

NextData ==
  \/ AssembleParams
  \/ Discriminate
  \/ ModelValidate

SpecData == InitData /\ [][NextData]_vars


(***************************************************************************)
(* Properties of the client.                                               *)
(***************************************************************************)
\* the sessions the client constructed itself
Created == {i \in DOMAIN objs : objs[i].owner = "client"}

\* C1: a session supplied by the caller is never closed by the client
\* (close() leaves it open and usable), and once close() has run on a
\* client that holds a session it created itself, that session is closed.
C1_SessionOwnership ==
  /\ \A i \in DOMAIN objs : objs[i].owner = "caller" => ~objs[i].closed
  /\ using_custom_session => (session # None /\ objs[session].owner = "caller")
  /\ (last.op = "close" /\ last.had_session /\ ~using_custom_session)
       => (session # None /\ objs[session].closed)

\* close() has run on a self-managed client and its session is closed
C1_Witness ==
  /\ last.op = "close"
  /\ ~using_custom_session
  /\ session # None
  /\ objs[session].owner = "client"
  /\ objs[session].closed

\* C2 (as claimed): a use_cache=true call always goes through the cache,
\* also while a use_cache=false call is in flight: its lookup never finds
\* the cache disabled.
C2_BypassIsPerCall ==
  \A c \in Calls :
    (calls[c].use_cache /\ calls[c].pc \in {"net", "body"})
      => ~calls[c].saw_disabled

\* C4: a request begun while the client has no session ends at once with
\* the "not initialized" RuntimeError, without a transport call, and leaves
\* the client's state as it was.
C4_NotInitialized ==
  [][\A c \in Calls :
       (calls[c].pc = "idle" /\ calls'[c].pc # "idle" /\ session = None)
         => /\ calls'[c].pc = "done"
            /\ calls'[c].outcome = [kind |-> "RuntimeError"]
            /\ calls'[c].via = "none"
            /\ UNCHANGED clientVars]_vars

\* a request has failed with the RuntimeError
C4_Witness ==
  \E c \in Calls :
    /\ calls[c].pc = "done"
    /\ calls[c].outcome = [kind |-> "RuntimeError"]
    /\ session = None

\* C5: however often start() is called, the client constructs at most one
\* session, and none when one was injected; the session reference, once
\* set by the first start(), is the one every later start() leaves in place.
C5_StartIdempotent ==
  /\ Cardinality(Created) <= 1
  /\ using_custom_session => Created = {}
  /\ session # None => session = 1
  /\ (last.op = "start") => session # None

\* start() has run on a self-managed client that already had its session
C5_Witness ==
  /\ last.op = "start"
  /\ last.had_session
  /\ ~using_custom_session
  /\ Cardinality(Created) = 1

\* C11: once the session reference is set it never changes and never
\* becomes None again, whatever start(), close() and requests follow; so
\* after close() on a self-managed client a start() constructs no session,
\* and a request is not refused with the RuntimeError but dispatched on the
\* closed session.
C11_SessionReferenceStable ==
  [][/\ session # None => session' = session
     /\ (session # None /\ objs[session].closed)
          => /\ Len(objs') = Len(objs)
             /\ \A c \in Calls :
                  (calls[c].pc = "idle" /\ calls'[c].pc # "idle")
                    => /\ calls'[c].pc \in {"read", "net"}
                       /\ calls'[c].outcome = [kind |-> "none"]]_vars

\* on a self-managed client, close() and then start() have run, the one
\* session is still the closed one, and a request is in flight on it
C11_Witness ==
  /\ ~using_custom_session
  /\ last.op = "start"
  /\ last.had_session
  /\ session = 1
  /\ Len(objs) = 1
  /\ objs[session].closed
  /\ \E c \in Calls : calls[c].pc = "read"

\* C7 (as claimed): a use_cache=false call that obtains a response has
\* obtained it by a network round trip.
C7_BypassAlwaysFetches ==
  \A c \in Calls :
    (~calls[c].use_cache /\ calls[c].pc = "body") => calls[c].via = "network"

C6_OutgoingParams ==
  (wire.fn = "params" /\ typed # Pending)
    => /\ \A k \in DOMAIN typed : typed[k] # NoneVal
       /\ \A k \in DOMAIN wire.arg \ {"api_key", "format"} :
            wire.arg[k] # NoneVal
              => (k \in DOMAIN typed /\ typed[k] = wire.arg[k])
       /\ {"api_key", "format"} \subseteq DOMAIN typed
       /\ typed["api_key"] = api_key
       /\ typed["format"] = StrV("json")

\* the caller passed its own api_key and format, and a None value
C6_Witness ==
  /\ wire.fn = "params"
  /\ typed # Pending
  /\ {"api_key", "format", "mbid", "artist"} \subseteq DOMAIN wire.arg
  /\ wire.arg["api_key"] = StrV("Cher")
  /\ wire.arg["format"] = StrV("Cher")
  /\ wire.arg["mbid"] = NoneVal
  /\ wire.arg["artist"] = StrV("Cher")

\* C8 (as claimed): in every record type with a MusicBrainz ID the
\* validated mbid is absent or a non-empty string: "" becomes absent and a
\* non-empty string is kept.
C8_MbidNormalized ==
  (wire.fn = "validate" /\ wire.case = "mbid" /\ typed # Pending)
    => LET w == wire.arg.f["mbid"] IN
       /\ typed.ok
       /\ LET m == typed.v.f["mbid"] IN
          /\ m.t = "none" \/ (m.t = "str" /\ m.v # "")
          /\ (w.t = "str" /\ w.v = "") => m.t = "none"
          /\ (w.t = "str" /\ w.v # "") => m = w

\* C9 (as claimed): a detail response that omits optional sections
\* validates, and the record has those sections absent.
C9_OptionalSections ==
  (wire.fn = "validate" /\ wire.case = "sections" /\ typed # Pending)
    => /\ typed.ok
       /\ \A s \in (Sections(wire.model) \cap DOMAIN typed.v.f) \ DOMAIN wire.arg.f :
            typed.v.f[s].t = "none"

\* C10 (as claimed): a list-like nested field validates to a list, a lone
\* object becoming the one-element list of that object and a list being
\* kept element for element.
C10_ListLike ==
  (wire.fn = "validate" /\ wire.case = "list" /\ typed # Pending)
    => \E lf \in ListFields :
         /\ lf.model = wire.model
         /\ LET w == wire.arg.f[lf.field]
                items == IF w.t = "list" THEN w.items ELSE <<w>>
            IN /\ typed.ok
               /\ typed.v.f[lf.field] =
                    ListV([i \in DOMAIN items |->
                             Validate(TModel(lf.elem), items[i]).v])

====
